---- MODULE Spec2Model ----
(***************************************************************************)
(* Response/error contract layer of the Juno backend:                      *)
(*   - asyncHandler (src/src/utils/async-handler.ts), the wrapper that     *)
(*     funnels a controller's failure into Express's next();               *)
(*   - ApiResponse (src/src/app.ts) and ApiError                           *)
(*     (src/src/utils/api-error.ts), the two envelope classes.             *)
(*                                                                         *)
(* Spec    : invocations of safeHandler = asyncHandler(requestHandler).    *)
(* EnvSpec : construction, mutation and serialization of envelopes.        *)
(***************************************************************************)
EXTENDS Integers, Sequences, FiniteSets, TLC

\* ------------------------------------------------------------------ bounds
NumInv == 2          \* invocations of one safeHandler that may interleave
MaxHandlerOps == 2   \* response writes / next calls a controller makes per invocation
MaxSuspend == 1      \* suspension points (awaits) a controller passes per invocation
MinStatus == 195     \* smallest statusCode argument tried
MaxStatus == 605     \* largest statusCode argument tried
MaxClock == 1        \* instants the clock of new Date() runs through

VARIABLES
    handlerKind,  \* how requestHandler was declared: "async" function or "plain" function returning a Promise
    pc,           \* per invocation: position of the controller's execution
    promise,      \* per invocation: state of the Promise returned by requestHandler
    reason,       \* per invocation: the failure the controller threw / rejected with
    reaction,     \* per invocation: state of the .catch callback registered by safeHandler
    events,       \* per invocation: ordered log of response writes and next calls
    suspensions,  \* per invocation: number of suspension points passed so far
    env,          \* the envelope object the last constructor call produced, if any
    lastCall,     \* the last constructor call: class, statusCode argument, outcome
    wire,         \* the last toJSON() output of env
    sent,         \* the response written with env at the response boundary
    clock         \* the instant new Date() returns

wrapVars == <<handlerKind, pc, promise, reason, reaction, events, suspensions>>

envVars == <<env, lastCall, wire, sent, clock>>

vars == <<handlerKind, pc, promise, reason, reaction, events, suspensions,
          env, lastCall, wire, sent, clock>>

Inv == 1..NumInv

\* raw failure objects a controller can throw or reject with
Errors == {"E1", "E2"}
NoError == "none"

\* ---------------------------------------------------------------- helpers
Event(by, op, arg) == [by |-> by, op |-> op, arg |-> arg]

HandlerOps(i) ==
    Cardinality({k \in 1..Len(events[i]) : events[i][k].by = "handler"})

HandlerWrites(i) ==
    Cardinality({k \in 1..Len(events[i]) :
                    events[i][k].by = "handler" /\ events[i][k].op = "write"})

WrapperWrites(i) ==
    Cardinality({k \in 1..Len(events[i]) :
                    events[i][k].by = "wrapper" /\ events[i][k].op = "write"})

WrapperForwards(i) ==
    Cardinality({k \in 1..Len(events[i]) :
                    events[i][k].by = "wrapper" /\ events[i][k].op = "next"})

NextFailures(i) ==
    Cardinality({k \in 1..Len(events[i]) :
                    events[i][k].op = "next" /\ events[i][k].arg \in Errors})

\* ------------------------------------------------- asyncHandler semantics
\* A throw raised while requestHandler(req, res, next) is being called, before
\* it returns: an async function turns it into a rejected Promise; a plain
\* function lets it propagate out of the call, past Promise.resolve(...).catch.
ThrowEscapes(kind) == kind = "plain"

\* .catch(cb): cb runs only for a rejected Promise.
CatchFires_OnAnySettle(p) == p \in {"fulfilled", "rejected"}

CatchFires(p) == p = "rejected"

\* The next that the .catch callback of invocation i calls: the parameter of
\* that call of safeHandler, captured by the callback's closure.
NextOf_Shared(i) == 1

NextOf(i) == i

\* next(err): the value handed to next is the rejection reason itself.
ForwardedValue_Wrapped(err) == "wrapped"

ForwardedValue(err) == err

WrapInit ==
    /\ handlerKind \in {"async", "plain"}
    /\ pc = [i \in Inv |-> "idle"]
    /\ promise = [i \in Inv |-> "none"]
    /\ reason = [i \in Inv |-> NoError]
    /\ reaction = [i \in Inv |-> "none"]
    /\ events = [i \in Inv |-> <<>>]
    /\ suspensions = [i \in Inv |-> 0]

\* Express calls safeHandler(req, res, next); requestHandler starts running.
Invoke(i) ==
    /\ pc[i] = "idle"
    /\ pc' = [pc EXCEPT ![i] = "sync"]
    /\ UNCHANGED <<envVars, handlerKind, promise, reason, reaction, events, suspensions>>

\* The controller writes a response: res.status(..).json(..).
HandlerWrite(i) ==
    /\ pc[i] \in {"sync", "resumed"}
    /\ HandlerOps(i) < MaxHandlerOps
    /\ events' = [events EXCEPT ![i] = Append(@, Event("handler", "write", "body"))]
    /\ UNCHANGED <<envVars, handlerKind, pc, promise, reason, reaction, suspensions>>

\* The controller calls the next it was given with a failure of its own.
HandlerCallsNext(i, e) ==
    /\ pc[i] \in {"sync", "resumed"}
    /\ HandlerOps(i) < MaxHandlerOps
    /\ events' = [events EXCEPT ![i] = Append(@, Event("handler", "next", e))]
    /\ UNCHANGED <<envVars, handlerKind, pc, promise, reason, reaction, suspensions>>

\* The controller reaches a suspension point.  On the first one the call
\* requestHandler(..) returns a pending Promise and safeHandler registers
\* the .catch callback and returns.
HandlerSuspend(i) ==
    /\ pc[i] \in {"sync", "resumed"}
    /\ suspensions[i] < MaxSuspend
    /\ pc' = [pc EXCEPT ![i] = "suspended"]
    /\ promise' = [promise EXCEPT ![i] = "pending"]
    /\ reaction' = [reaction EXCEPT ![i] = "attached"]
    /\ suspensions' = [suspensions EXCEPT ![i] = @ + 1]
    /\ UNCHANGED <<envVars, handlerKind, reason, events>>

\* The awaited work completes and the controller continues.
HandlerResume(i) ==
    /\ pc[i] = "suspended"
    /\ pc' = [pc EXCEPT ![i] = "resumed"]
    /\ UNCHANGED <<envVars, handlerKind, promise, reason, reaction, events, suspensions>>

\* The controller completes normally: its Promise is fulfilled.
HandlerReturn(i) ==
    /\ pc[i] \in {"sync", "resumed"}
    /\ pc' = [pc EXCEPT ![i] = "returned"]
    /\ promise' = [promise EXCEPT ![i] = "fulfilled"]
    /\ reaction' = [reaction EXCEPT ![i] = "attached"]
    /\ UNCHANGED <<envVars, handlerKind, reason, events, suspensions>>

\* The controller fails with e.  After a suspension, or in an async function,
\* the Promise is rejected; a throw during the call of a plain function
\* leaves safeHandler before .catch is registered.
HandlerThrow(i, e) ==
    /\ pc[i] \in {"sync", "resumed"}
    /\ reason' = [reason EXCEPT ![i] = e]
    /\ IF pc[i] = "sync" /\ ThrowEscapes(handlerKind)
       THEN /\ pc' = [pc EXCEPT ![i] = "escaped"]
            /\ UNCHANGED <<promise, reaction>>
       ELSE /\ pc' = [pc EXCEPT ![i] = "returned"]
            /\ promise' = [promise EXCEPT ![i] = "rejected"]
            /\ reaction' = [reaction EXCEPT ![i] = "attached"]
    /\ UNCHANGED <<envVars, handlerKind, events, suspensions>>

\* The .catch callback: (err) => { next(err); }
CatchCallback(i) ==
    /\ reaction[i] = "attached"
    /\ CatchFires(promise[i])
    /\ reaction' = [reaction EXCEPT ![i] = "ran"]
    /\ events' = [events EXCEPT ![NextOf(i)] =
                    Append(@, Event("wrapper", "next", ForwardedValue(reason[i])))]
    /\ UNCHANGED <<envVars, handlerKind, pc, promise, reason, suspensions>>

\* an invocation has run to its end: nothing of it remains scheduled
Finished(i) ==
    \/ pc[i] = "escaped"
    \/ pc[i] = "returned" /\ promise[i] = "fulfilled"
    \/ pc[i] = "returned" /\ promise[i] = "rejected" /\ reaction[i] = "ran"


\* ------------------------------------------------------------- envelopes
\* JavaScript values that are not strings of the application
Undefined == "undefined"
Null == "null"

\* v && x, ...(v && {..}): undefined, null and the empty string are falsy;
\* every other string and every object is truthy.
Truthy_NotUndefined(v) == v # Undefined

Truthy(v) == v \notin {Undefined, Null, ""}

\* a parameter's default value applies when the argument is undefined
Default(arg, dflt) == IF arg = Undefined THEN dflt ELSE arg

\* new Date().toISOString(): one string per instant
ToISOString(t) == t

NoEnvelope == [kind |-> "none"]
NoWire == [kind |-> "none"]
NoResponse == [kind |-> "none"]
NoCall == [class |-> "none", via |-> "none", statusCode |-> 0, result |-> "none"]

\* a constructor that throws yields no object
Threw == [kind |-> "Error"]

\* the status-code test of the ApiResponse constructor
ApiResponseRejects_Above400(statusCode) == statusCode < 200 \/ statusCode > 400

ApiResponseRejects(statusCode) == statusCode < 200 \/ statusCode >= 400

\* the status-code test of the ApiError constructor
ApiErrorRejects_From599(statusCode) == statusCode < 400 \/ statusCode >= 599

ApiErrorRejects_Below200(statusCode) == statusCode < 200 \/ statusCode > 599

ApiErrorRejects(statusCode) == statusCode < 400 \/ statusCode > 599

\* new ApiResponse(statusCode, data, message, metadata) at instant now
ApiResponse(statusCode, data, message, metadata, now) ==
    IF ApiResponseRejects(statusCode) THEN Threw
    ELSE [kind |-> "ApiResponse",
          success |-> TRUE,
          statusCode |-> statusCode,
          data |-> data,
          message |-> Default(message, "Success"),
          metadata |-> metadata,
          timestamp |-> ToISOString(now)]

\* public correlationId?: string -- declared without an initializer
InitialCorrelationId_Generated == "req-1"

InitialCorrelationId == Undefined

\* new ApiError(statusCode, message, errors, stack, code) at instant now
ApiError(statusCode, message, errors, stack, code, now) ==
    IF ApiErrorRejects(statusCode) THEN Threw
    ELSE [kind |-> "ApiError",
          success |-> FALSE,
          statusCode |-> statusCode,
          message |-> Default(message, "Something went wrong"),
          data |-> Null,
          errors |-> errors,
          code |-> code,
          timestamp |-> ToISOString(now),
          correlationId |-> InitialCorrelationId,
          name |-> "ApiError",
          stack |-> IF Truthy(stack) THEN stack ELSE "captured"]

\* static factories of ApiResponse
ApiResponse_ok(data, message, now) ==
    ApiResponse(200, data, Default(message, "Success"), Undefined, now)

ApiResponse_created(data, message, now) ==
    ApiResponse(201, data, Default(message, "Resource created successfully"), Undefined, now)

ApiResponse_noContent(message, now) ==
    ApiResponse(204, Null, Default(message, "Operation completed successfully"), Undefined, now)

ApiResponse_paginated(data, metadata, message, now) ==
    ApiResponse(200, data, Default(message, "Data retrieved successfully"), metadata, now)

\* static factories of ApiError
ApiError_badRequest(message, errors, now) ==
    ApiError(400, Default(message, "Bad Request"), errors, Undefined, "BAD_REQUEST", now)

ApiError_unauthorized(message, now) ==
    ApiError(401, Default(message, "Unauthorized access"), <<>>, Undefined, "UNAUTHORIZED", now)

ApiError_forbidden(message, now) ==
    ApiError(403, Default(message, "Access forbidden"), <<>>, Undefined, "FORBIDDEN", now)

ApiError_notFound(resource, now) ==
    ApiError(404, Default(resource, "Resource") \o " not found", <<>>, Undefined, "NOT_FOUND", now)

ApiError_conflict_As400(message, now) ==
    ApiError(400, Default(message, "Resource conflict"), <<>>, Undefined, "CONFLICT", now)

ApiError_conflict(message, now) ==
    ApiError(409, Default(message, "Resource conflict"), <<>>, Undefined, "CONFLICT", now)

ApiError_validation(message, errors, now) ==
    ApiError(422, Default(message, "Validation failed"), errors, Undefined, "VALIDATION_ERROR", now)

ApiError_internal_WithDetail(message, now) ==
    ApiError(500, Default(message, "Internal server error"),
             <<[message |-> "Internal server error"]>>, Undefined, "INTERNAL_ERROR", now)

ApiError_internal(message, now) ==
    ApiError(500, Default(message, "Internal server error"), <<>>, Undefined, "INTERNAL_ERROR", now)

\* ApiResponse.prototype.toJSON
ApiResponseFields(r) ==
    {"success", "statusCode", "message", "data", "timestamp"}
        \cup (IF Truthy(r.metadata) THEN {"metadata"} ELSE {})

ApiResponseToJSON(r) == [f \in ApiResponseFields(r) |-> r[f]]

\* ApiError.prototype.toJSON
ApiErrorFields(r) ==
    {"success", "statusCode", "message", "data", "errors", "timestamp"}
        \cup (IF Truthy(r.code) THEN {"code"} ELSE {})
        \cup (IF Truthy(r.correlationId) THEN {"correlationId"} ELSE {})

ApiErrorToJSON_FreshTimestamp(r) ==
    [f \in ApiErrorFields(r) |-> IF f = "timestamp" THEN ToISOString(clock) ELSE r[f]]

ApiErrorToJSON(r) == [f \in ApiErrorFields(r) |-> r[f]]

ToJSON(r) == IF r.kind = "ApiResponse" THEN ApiResponseToJSON(r) ELSE ApiErrorToJSON(r)

\* ------------------------------------------------------ argument domains
StatusCodes == MinStatus..MaxStatus
Messages == {Undefined, "Project"}
Payloads == {Null, "payload"}
Metadatas == {Undefined, "{}", "{total:50,page:1,limit:10,totalPages:5}"}
Detail1 == [field |-> "email", message |-> "Valid email is required"]
Detail2 == [field |-> "password", message |-> "Password must be at least 8 characters"]
ErrorLists == {<<>>, <<Detail1>>, <<Detail1, Detail2>>}
Stacks == {Undefined, "", "trace"}
Codes == {Undefined, "", "EMAIL_DUPLICATE"}
CorrelationIds == {Undefined, "", "req-1", "req-2"}

EnvInit ==
    /\ env = NoEnvelope
    /\ lastCall = NoCall
    /\ wire = NoWire
    /\ sent = NoResponse
    /\ clock = 0

\* no envelope is in hand: the point where a constructor or factory is called
Fresh == env = NoEnvelope /\ lastCall = NoCall

\* One envelope is followed from its construction to its discard.  The
\* outcome of a constructor call becomes the current object; a throw leaves
\* no object behind.
Constructed(class, via, statusCode, result) ==
    /\ lastCall' = [class |-> class, via |-> via, statusCode |-> statusCode,
                    result |-> IF result.kind = "Error" THEN "threw" ELSE "ok"]
    /\ env' = IF result.kind = "Error" THEN NoEnvelope ELSE result
    /\ UNCHANGED <<wire, sent, clock, wrapVars>>

NewApiResponse ==
    /\ Fresh
    /\ \E sc \in StatusCodes, d \in Payloads, m \in Messages, md \in Metadatas :
          Constructed("ApiResponse", "new", sc, ApiResponse(sc, d, m, md, clock))

NewApiError ==
    /\ Fresh
    /\ \E sc \in StatusCodes, m \in Messages, es \in ErrorLists, st \in Stacks, c \in Codes :
          Constructed("ApiError", "new", sc, ApiError(sc, m, es, st, c, clock))

Ok ==
    /\ Fresh
    /\ \E d \in Payloads, m \in Messages :
          Constructed("ApiResponse", "ok", 200, ApiResponse_ok(d, m, clock))

Created ==
    /\ Fresh
    /\ \E d \in Payloads, m \in Messages :
          Constructed("ApiResponse", "created", 201, ApiResponse_created(d, m, clock))

NoContent ==
    /\ Fresh
    /\ \E m \in Messages :
          Constructed("ApiResponse", "noContent", 204, ApiResponse_noContent(m, clock))

Paginated ==
    /\ Fresh
    /\ \E d \in Payloads, md \in Metadatas \ {Undefined}, m \in Messages :
          Constructed("ApiResponse", "paginated", 200, ApiResponse_paginated(d, md, m, clock))

BadRequest ==
    /\ Fresh
    /\ \E m \in Messages, es \in ErrorLists :
          Constructed("ApiError", "badRequest", 400, ApiError_badRequest(m, es, clock))

Unauthorized ==
    /\ Fresh
    /\ \E m \in Messages :
          Constructed("ApiError", "unauthorized", 401, ApiError_unauthorized(m, clock))

Forbidden ==
    /\ Fresh
    /\ \E m \in Messages :
          Constructed("ApiError", "forbidden", 403, ApiError_forbidden(m, clock))

NotFound ==
    /\ Fresh
    /\ \E r \in Messages :
          Constructed("ApiError", "notFound", 404, ApiError_notFound(r, clock))

Conflict ==
    /\ Fresh
    /\ \E m \in Messages :
          Constructed("ApiError", "conflict", 409, ApiError_conflict(m, clock))

Validation ==
    /\ Fresh
    /\ \E m \in Messages, es \in ErrorLists :
          Constructed("ApiError", "validation", 422, ApiError_validation(m, es, clock))

Internal ==
    /\ Fresh
    /\ \E m \in Messages :
          Constructed("ApiError", "internal", 500, ApiError_internal(m, clock))

\* err.correlationId = id: a plain assignment to the public field
SetCorrelationId(id) ==
    /\ env.kind = "ApiError"
    /\ env' = [env EXCEPT !.correlationId = id]
    /\ UNCHANGED <<lastCall, wire, sent, clock, wrapVars>>

\* JSON.stringify(env) / env.toJSON()
Serialize ==
    /\ env.kind \in {"ApiResponse", "ApiError"}
    /\ wire' = [kind |-> "json", json |-> ToJSON(env)]
    /\ UNCHANGED <<env, lastCall, sent, clock, wrapVars>>

\* the health probe: res.status(200).json(new ApiResponse(200, {message}))
HealthCheck ==
    /\ Fresh
    /\ LET r == ApiResponse(200, "{message:Server is running.}", Undefined, Undefined, clock)
       IN /\ lastCall' = [class |-> "ApiResponse", via |-> "healthCheck", statusCode |-> 200,
                          result |-> IF r.kind = "Error" THEN "threw" ELSE "ok"]
          /\ env' = IF r.kind = "Error" THEN NoEnvelope ELSE r
          /\ sent' = IF r.kind = "Error" THEN sent
                     ELSE [kind |-> "response", status |-> 200, body |-> ToJSON(r)]
    /\ UNCHANGED <<wire, clock, wrapVars>>

\* the envelope is discarded once the response is sent (or the constructor's
\* throw has been handled); the next one starts afresh
Discard ==
    /\ lastCall # NoCall
    /\ env' = NoEnvelope
    /\ lastCall' = NoCall
    /\ wire' = NoWire
    /\ sent' = NoResponse
    /\ UNCHANGED <<clock, wrapVars>>

\* time passes
Tick ==
    /\ clock < MaxClock
    /\ clock' = clock + 1
    /\ UNCHANGED <<env, lastCall, wire, sent, wrapVars>>

EnvNext ==
    \/ NewApiResponse
    \/ NewApiError
    \/ Ok
    \/ Created
    \/ NoContent
    \/ Paginated
    \/ BadRequest
    \/ Unauthorized
    \/ Forbidden
    \/ NotFound
    \/ Conflict
    \/ Validation
    \/ Internal
    \/ HealthCheck
    \/ \E id \in CorrelationIds \ {Undefined} : SetCorrelationId(id)
    \/ Serialize
    \/ Discard
    \/ Tick

Init == WrapInit /\ EnvInit

\* Spec follows one invocation of safeHandler through everything a
\* controller can do with req, res and next.
Solo == {1}

Next ==
    \/ \E i \in Solo : Invoke(i)
    \/ \E i \in Solo : HandlerWrite(i)
    \/ \E i \in Solo, e \in Errors : HandlerCallsNext(i, e)
    \/ \E i \in Solo : HandlerSuspend(i)
    \/ \E i \in Solo : HandlerResume(i)
    \/ \E i \in Solo : HandlerReturn(i)
    \/ \E i \in Solo, e \in Errors : HandlerThrow(i, e)
    \/ \E i \in Solo : CatchCallback(i)

\* ConcSpec lets NumInv invocations of the same safeHandler interleave at
\* every step; their controllers write responses, suspend, complete and fail,
\* and leave calling next to the wrapper.
ConcNext ==
    \/ \E i \in Inv : Invoke(i)
    \/ \E i \in Inv : HandlerWrite(i)
    \/ \E i \in Inv : HandlerSuspend(i)
    \/ \E i \in Inv : HandlerResume(i)
    \/ \E i \in Inv : HandlerReturn(i)
    \/ \E i \in Inv, e \in Errors : HandlerThrow(i, e)
    \/ \E i \in Inv : CatchCallback(i)

ConcSpec == Init /\ [][ConcNext]_vars

Spec == Init /\ [][Next]_vars

\* the envelope classes do not depend on how a controller was declared
EnvSpecInit == Init /\ handlerKind = "async"

EnvSpec == EnvSpecInit /\ [][EnvNext]_vars

\* ======================================================== properties
IsWrapperNext(e) == e.by = "wrapper" /\ e.op = "next"

ForwardedByWrapper(i) == SelectSeq(events[i], IsWrapperNext)

\* some response write of the controller precedes a next call of the wrapper
ForwardAfterWrite(i) ==
    \E k, l \in 1..Len(events[i]) :
        /\ k < l
        /\ events[i][k].by = "handler" /\ events[i][k].op = "write"
        /\ events[i][l].by = "wrapper" /\ events[i][l].op = "next"

\* the controller failed before passing any suspension point
FailedSynchronously(i) == reason[i] # NoError /\ suspensions[i] = 0

\* C1: a controller that throws during its call, before any suspension, has
\* exactly one failure forwarded to next by the wrapper, the wrapper writes no
\* response, and the throw does not leave safeHandler.
C1_SyncThrowForwardedOnce ==
    \A i \in Inv :
        (Finished(i) /\ FailedSynchronously(i)) =>
            /\ pc[i] # "escaped"
            /\ WrapperForwards(i) = 1
            /\ WrapperWrites(i) = 0

\* C2: a controller that suspends and then rejects has exactly one failure
\* forwarded to next by the wrapper, and the value forwarded is the raw
\* rejection reason.
C2_AsyncRejectForwardedRaw ==
    \A i \in Inv :
        (Finished(i) /\ promise[i] = "rejected" /\ suspensions[i] > 0) =>
            ForwardedByWrapper(i) = <<Event("wrapper", "next", reason[i])>>

C2_Witness ==
    \E i \in Inv :
        /\ Finished(i) /\ promise[i] = "rejected" /\ suspensions[i] > 0
        /\ reason[i] = "E2"
        /\ WrapperForwards(i) = 1

\* C3 as stated: whatever the controller does with next, the failure the
\* wrapper forwards is the only failure the next continuation receives in
\* that invocation, and it is not forwarded after a normal completion.
C3_NextReceivesAtMostOneFailure ==
    \A i \in Inv :
        /\ WrapperForwards(i) > 0 => NextFailures(i) = 1
        /\ ~(promise[i] = "fulfilled" /\ WrapperForwards(i) > 0)

\* C3 amended: the wrapper itself calls next at most once per invocation, and
\* never for an invocation whose controller completed normally.
C3_WrapperForwardsAtMostOnce ==
    \A i \in Inv :
        /\ WrapperForwards(i) <= 1
        /\ ~(promise[i] = "fulfilled" /\ WrapperForwards(i) > 0)

C3_Witness ==
    \E i \in Inv :
        /\ Finished(i)
        /\ WrapperForwards(i) = 1
        /\ NextFailures(i) = 2

\* C4 as stated: no response write of the controller is followed by a next
\* call of the wrapper in the same invocation.
C4_NoForwardAfterWrite ==
    \A i \in Inv : ~ForwardAfterWrite(i)

\* C4 amended: the wrapper forwards after a response write only when the
\* controller failed after writing, and then it forwards that failure.
C4_ForwardAfterWriteOnlyOnFailure ==
    \A i \in Inv :
        ForwardAfterWrite(i) =>
            /\ promise[i] = "rejected"
            /\ reason[i] \in Errors
            /\ events[i][Len(events[i])] = Event("wrapper", "next", reason[i])

C4_Witness ==
    \E i \in Inv : ForwardAfterWrite(i) /\ Finished(i)

\* C5: when the controller completes normally the wrapper neither calls next
\* nor writes a response: every logged effect is the controller's own.
C5_NormalCompletionNoWrapperAction ==
    \A i \in Inv :
        promise[i] = "fulfilled" =>
            /\ WrapperForwards(i) = 0
            /\ WrapperWrites(i) = 0
            /\ \A k \in 1..Len(events[i]) : events[i][k].by = "handler"

C5_Witness ==
    \E i \in Inv :
        /\ Finished(i) /\ promise[i] = "fulfilled"
        /\ suspensions[i] > 0
        /\ HandlerWrites(i) = 1

\* the (success, statusCode) pair of an envelope or of its wire form
Consistent(e) ==
    /\ e.success = TRUE => e.statusCode \in 200..399
    /\ e.success = FALSE => e.statusCode \in 400..599

\* C6: new ApiResponse succeeds exactly for statusCode in [200,399], giving
\* success = true and that statusCode; otherwise it throws and no envelope
\* is produced.
C6_ApiResponseRange ==
    lastCall.class = "ApiResponse" =>
        IF lastCall.statusCode \in 200..399
        THEN /\ lastCall.result = "ok"
             /\ env.kind = "ApiResponse"
             /\ env.success = TRUE
             /\ env.statusCode = lastCall.statusCode
        ELSE /\ lastCall.result = "threw"
             /\ env.kind = "none"

C6_Witness ==
    /\ lastCall.class = "ApiResponse"
    /\ lastCall.statusCode = 400
    /\ lastCall.result = "threw"

\* C7: new ApiError succeeds exactly for statusCode in [400,599], giving
\* success = false and data = null; otherwise it throws, no envelope exists
\* and nothing has been serialized or written.
C7_ApiErrorRange ==
    lastCall.class = "ApiError" =>
        IF lastCall.statusCode \in 400..599
        THEN /\ lastCall.result = "ok"
             /\ env.kind = "ApiError"
             /\ env.success = FALSE
             /\ env.data = Null
             /\ env.statusCode = lastCall.statusCode
        ELSE /\ lastCall.result = "threw"
             /\ env.kind = "none"
             /\ wire.kind = "none"
             /\ sent.kind = "none"

C7_Witness ==
    /\ lastCall.class = "ApiError"
    /\ lastCall.statusCode = 599
    /\ lastCall.result = "ok"

\* C8: every envelope in hand, every serialized envelope and every envelope
\* written as a response has success = true with statusCode in [200,399] or
\* success = false with statusCode in [400,599].
C8_EnvelopeConsistent ==
    /\ env.kind # "none" => Consistent(env)
    /\ wire.kind # "none" => Consistent(wire.json)
    /\ sent.kind # "none" => Consistent(sent.body) /\ sent.status = sent.body.statusCode

C8_Witness ==
    /\ env.kind = "ApiError"
    /\ lastCall.via = "notFound"
    /\ env.correlationId = "req-1"
    /\ wire.kind # "none"
    /\ "correlationId" \in DOMAIN wire.json

\* C9 as stated: absent on a fresh error envelope, and once a correlation id
\* is attached no later step changes or removes it.
C9_CorrelationIdSetOnce ==
    [][/\ (Fresh /\ env'.kind = "ApiError") => env'.correlationId = Undefined
       /\ (env.kind = "ApiError" /\ env'.kind = "ApiError"
             /\ env.correlationId # Undefined)
            => env'.correlationId = env.correlationId]_vars

\* C9 amended: absent on a fresh error envelope; afterwards the object
\* changes only by an assignment to correlationId, which always takes effect
\* (no other field changes, and no other step touches the object).
C9_CorrelationIdOnlyAssigned ==
    [][/\ (Fresh /\ env'.kind = "ApiError") => env'.correlationId = Undefined
       /\ (env.kind = "ApiError" /\ env'.kind = "ApiError" /\ env' # env)
            => \E id \in CorrelationIds \ {Undefined} :
                  /\ env' = [env EXCEPT !.correlationId = id]
                  /\ wire' = wire]_vars

C9_Witness ==
    /\ env.kind = "ApiError"
    /\ env.correlationId = "req-2"
    /\ wire.kind # "none"
    /\ "correlationId" \in DOMAIN wire.json
    /\ wire.json.correlationId = "req-1"

\* the wire fields every envelope of a class carries
RequiredFields(e) ==
    IF e.kind = "ApiResponse"
    THEN {"success", "statusCode", "message", "data", "timestamp"}
    ELSE {"success", "statusCode", "message", "data", "errors", "timestamp"}

OptionalFields(e) ==
    IF e.kind = "ApiResponse" THEN {"metadata"} ELSE {"code", "correlationId"}

\* toJSON emitted the required fields and exactly the optional fields in
\* present, each with the object's value, none of them null or undefined
WireExactly(e, json, present) ==
    /\ DOMAIN json = RequiredFields(e) \cup present
    /\ \A f \in DOMAIN json : json[f] = e[f]
    /\ \A f \in DOMAIN json \cap OptionalFields(e) : json[f] \notin {Null, Undefined}

\* C10 as stated: an optional field is on the wire if and only if it was
\* supplied.
C10_WireFieldsIffSupplied ==
    [][Serialize =>
         WireExactly(env, wire'.json,
                     {f \in OptionalFields(env) : env[f] # Undefined})]_vars

\* C10 amended: an optional field is on the wire if and only if it was
\* supplied with a non-empty value.
C10_WireFieldsIffNonEmpty ==
    [][Serialize =>
         WireExactly(env, wire'.json,
                     {f \in OptionalFields(env) : env[f] # Undefined /\ env[f] # ""})]_vars

C10_Witness ==
    /\ env.kind = "ApiError"
    /\ env.code = ""
    /\ env.correlationId = "req-1"
    /\ wire.kind # "none"
    /\ DOMAIN wire.json =
         {"success", "statusCode", "message", "data", "errors", "timestamp", "correlationId"}

\* the documented taxonomy: status code and machine code of each kind
Taxonomy ==
    [badRequest   |-> [status |-> 400, code |-> "BAD_REQUEST"],
     unauthorized |-> [status |-> 401, code |-> "UNAUTHORIZED"],
     forbidden    |-> [status |-> 403, code |-> "FORBIDDEN"],
     notFound     |-> [status |-> 404, code |-> "NOT_FOUND"],
     conflict     |-> [status |-> 409, code |-> "CONFLICT"],
     validation   |-> [status |-> 422, code |-> "VALIDATION_ERROR"],
     internal     |-> [status |-> 500, code |-> "INTERNAL_ERROR"]]

KindOrder ==
    <<"badRequest", "unauthorized", "forbidden", "notFound", "conflict",
      "validation", "internal">>

\* what the seven factories return for one message argument, now, in KindOrder
MadeBy(m) ==
    <<ApiError_badRequest(m, <<>>, clock), ApiError_unauthorized(m, clock),
      ApiError_forbidden(m, clock), ApiError_notFound(m, clock),
      ApiError_conflict(m, clock), ApiError_validation(m, <<>>, clock),
      ApiError_internal(m, clock)>>

\* C11: each of the seven factories yields, for every message argument, an
\* error envelope with the status code and machine code of its kind, equal to
\* what new ApiError gives for those values; no other kind's factory yields
\* its status code or its machine code.
C11_FactoriesFixedStatusAndCode ==
    /\ lastCall.via \in DOMAIN Taxonomy =>
          LET t == Taxonomy[lastCall.via]
              direct == ApiError(t.status, env.message, env.errors, Undefined, t.code, clock)
          IN /\ lastCall.result = "ok"
             /\ env.kind = "ApiError"
             /\ env.statusCode = t.status
             /\ env.code = t.code
             /\ [env EXCEPT !.correlationId = Undefined]
                  = [direct EXCEPT !.timestamp = env.timestamp]
             /\ \A m \in Messages : \A b \in 1..7 :
                   LET other == MadeBy(m)[b]
                   IN /\ other.kind = "ApiError"
                      /\ KindOrder[b] # lastCall.via =>
                            /\ other.statusCode # env.statusCode
                            /\ other.code # env.code

C11_Witness ==
    /\ lastCall.via = "conflict"
    /\ env.kind = "ApiError"
    /\ env.message = "Project"
    /\ env.statusCode = 409
    /\ env.code = "CONFLICT"

\* C12 as stated: every envelope made by a factory other than validation
\* carries zero or one ErrorDetail.
C12_OnlyValidationCarriesSeveral ==
    (lastCall.via \in DOMAIN Taxonomy \ {"validation"} /\ env.kind = "ApiError")
        => Len(env.errors) <= 1

\* C12 amended: every envelope made by unauthorized, forbidden, notFound,
\* conflict or internal carries no ErrorDetail; badRequest, like validation,
\* carries whatever errors sequence it was given.
C12_OnlyBadRequestAndValidationCarryDetails ==
    (lastCall.via \in DOMAIN Taxonomy \ {"validation", "badRequest"}
        /\ env.kind = "ApiError")
        => env.errors = <<>>

C12_Witness ==
    /\ lastCall.via = "badRequest"
    /\ env.kind = "ApiError"
    /\ env.statusCode = 400
    /\ env.errors = <<Detail1, Detail2>>

\* the envelope has not been assigned to since wire was produced: the only
\* assignable field, correlationId, is as wire shows it
UnchangedSinceSerialized ==
    env.kind = "ApiError" =>
        IF "correlationId" \in DOMAIN wire.json
        THEN env.correlationId = wire.json.correlationId
        ELSE env.correlationId \in {Undefined, ""}

\* C13: serializing an envelope again, with no mutation in between, yields
\* the output of the first serialization, however much time has passed; the
\* timestamp is the instant of construction, serialization emits it as stored
\* and no step changes it or any other field read by toJSON.
C13_SerializeTwiceSame ==
    [][/\ (Fresh /\ env'.kind # "none") => env'.timestamp = ToISOString(clock)
       /\ (env.kind # "none" /\ env'.kind # "none") => env'.timestamp = env.timestamp
       /\ Serialize =>
            /\ env' = env
            /\ wire'.json.timestamp = env.timestamp
            /\ (wire.kind = "json" /\ UnchangedSinceSerialized) => wire' = wire]_vars

C13_Witness ==
    /\ env.kind = "ApiError"
    /\ wire.kind = "json"
    /\ UnchangedSinceSerialized
    /\ clock > env.timestamp
    /\ wire.json.timestamp = env.timestamp
    /\ wire.json = ToJSON(env)

\* C14: invocations of one safeHandler that interleave do not affect each
\* other: each invocation's next receives from the wrapper exactly the
\* failure of that invocation's own controller run, once, when that run
\* rejected, and nothing when it did not; an invocation not yet made has no
\* effect logged.
C14_InvocationsIndependent ==
    \A i \in Inv :
        /\ ForwardedByWrapper(i) =
              (IF reaction[i] = "ran"
               THEN <<Event("wrapper", "next", reason[i])>> ELSE <<>>)
        /\ reaction[i] = "ran" => promise[i] = "rejected"
        /\ pc[i] = "idle" => events[i] = <<>> /\ promise[i] = "none"

C14_Witness ==
    \E i, j \in Inv :
        /\ i # j
        /\ pc[i] = "suspended" /\ HandlerWrites(i) = 1 /\ WrapperForwards(i) = 0
        /\ suspensions[j] > 0 /\ reaction[j] = "ran" /\ reason[j] = "E2"
        /\ ForwardedByWrapper(j) = <<Event("wrapper", "next", "E2")>>

TypeOK ==
    /\ handlerKind \in {"async", "plain"}
    /\ pc \in [Inv -> {"idle", "sync", "suspended", "resumed", "returned", "escaped"}]
    /\ promise \in [Inv -> {"none", "pending", "fulfilled", "rejected"}]
    /\ reason \in [Inv -> Errors \cup {NoError}]
    /\ reaction \in [Inv -> {"none", "attached", "ran"}]
    /\ suspensions \in [Inv -> 0..MaxSuspend]
====
